---- MODULE Spec2Model ----
(***************************************************************************)
(* Combined out-of-distribution (COOD) detection model of geti_sdk:        *)
(* src/geti_sdk/detect_ood/ood_model.py.                                   *)
(*                                                                         *)
(* Five specifications share this module:                                   *)
(*   SpecSplit  COODModel._split_data applied to a bounded item list;      *)
(*   SpecSub    one OODSubModel instance: construction, train, __call__;   *)
(*   Spec       COODModel.__init__ step by step, then COODModel.__call__;  *)
(*   SpecCallers  several callers inside COODModel.__call__ at once;       *)
(*   SpecCollect  one FileSystemDataCollection (post_inference_hooks/      *)
(*                actions/file_system_data_collection.py) and its folder.  *)
(* Floating point ratios are kept as exact fractions; feature vectors are  *)
(* one-dimensional integers and distances are squared differences.         *)
(***************************************************************************)
EXTENDS Integers, Sequences, FiniteSets, TLC

VARIABLES
    \* ---- SpecSplit: the list handed to _split_data
    sdata,          \* List[DistributionDataItem]
    nsplits,        \* number of _split_data calls made on sdata
    lastStratified, \* the `stratified` argument of the last call
    \* ---- SpecSub: one sub-model instance
    sub,            \* the OODSubModel object
    subTrainCount,  \* number of train() calls on it
    subCall,        \* the last __call__ on it: arguments and outcome
    \* ---- Spec: COODModel construction and inference
    pc,             \* position inside COODModel.__init__ / afterwards
    project,        \* the Geti project the model is built for
    ood_reference_images_dir,
    corruption_transform,
    fs,             \* directories of the workspace that hold image files
    ood_source,     \* which OOD source _prepare_id_ood_data selected
    id_distribution_data,
    ood_distribution_data,
    sub_models,     \* ordered dict name -> sub-model
    ood_classifier, \* the fitted RandomForestClassifier, or None
    stages,         \* the construction stages completed, in order
    error,          \* the exception that ended construction, or None
    trainLog,       \* every sub-model train() call: <<name, items>>
    fitLog,         \* what ood_classifier.fit received
    evalLog,        \* what ood_classifier.score received
    callLog,        \* the last COODModel.__call__: argument and outcome
    \* ---- SpecCallers: concurrent callers of one constructed COODModel
    callers,        \* caller -> the local variables of its __call__
    predict_proba,  \* what the fitted forest answers for each feature row
    \* ---- SpecCollect: one FileSystemDataCollection and its target folder
    collector,      \* the FileSystemDataCollection object, or None
    disk,           \* the folders and files below target_folder
    clock,          \* the last reading of datetime.now()
    collected       \* the last __call__ on it: arguments and files written

splitVars == <<sdata, nsplits, lastStratified>>
subVars == <<sub, subTrainCount, subCall>>
coodVars == <<pc, project, ood_reference_images_dir, corruption_transform,
              fs, ood_source, id_distribution_data, ood_distribution_data,
              sub_models, ood_classifier, stages, error, trainLog, fitLog,
              evalLog, callLog>>
callVars == <<callers, predict_proba>>
collectVars == <<collector, disk, clock, collected>>
vars == <<sdata, nsplits, lastStratified, sub, subTrainCount, subCall, pc,
          project, ood_reference_images_dir, corruption_transform, fs,
          ood_source, id_distribution_data, ood_distribution_data,
          sub_models, ood_classifier, stages, error, trainLog, fitLog,
          evalLog, callLog, callers, predict_proba, collector, disk, clock,
          collected>>

----------------------------------------------------------------------------
\* Bounds of the model
MaxPerClass == 4    \* SpecSplit: items per class in the list that is split
MaxSplits == 2      \* SpecSplit: _split_data calls on one list
MaxTrainItems == 2  \* SpecSub: length of the list given to train()
MaxQueryItems == 2  \* SpecSub: length of the list given to __call__
MaxSubTrains == 2   \* SpecSub: train() calls on one sub-model
MaxFeature == 1     \* feature vectors are 0..MaxFeature
MaxIdItems == 3     \* Spec: images in the in-distribution dataset
MaxOodItems == 2    \* Spec: images in the OOD directory / dataset
ProbaSteps == 2     \* Spec: predict_proba values are multiples of 1/ProbaSteps
MaxCallers == 2     \* SpecCallers: callers inside __call__ at the same time
MaxClock == 2       \* SpecCollect: datetime.now() readings are 0..MaxClock

\* Program constants
SplitRatioNum == 9          \* self.train_test_split = 0.90
SplitRatioDen == 10
MinSamplesPerClass == 1     \* min_samples_per_class=1
KnnK == 10                  \* KNNBasedOODModel(knn_k=10)

None == "None"
\* an optional value: Nothing, or Some(x)
Nothing == <<>>
Some(x) == <<x>>
Get(o) == o[1]
TRAIN == "train"
TEST == "test"
Classes == {"a", "b", "c"}

----------------------------------------------------------------------------
\* Helpers over sequences and sets
Range(s) == {s[i] : i \in DOMAIN s}

RECURSIVE SetToSeq(_)
SetToSeq(S) ==
    IF S = {} THEN <<>>
    ELSE LET m == CHOOSE x \in S : \A y \in S : x <= y
         IN <<m>> \o SetToSeq(S \ {m})

\* the member of a one-member set; Only({f(x) : x \in {e}}) is f(e) with e
\* computed once, however often f uses it
Only(S) == CHOOSE y \in S : TRUE

\* the sequence f, with its elements computed once
Array(f) == f \o <<>>

RECURSIVE Repeat(_, _)
Repeat(x, n) == IF n = 0 THEN <<>> ELSE <<x>> \o Repeat(x, n - 1)

----------------------------------------------------------------------------
\* DistributionDataItem
DistributionDataItem(name, fv, predicted, prob, annotated, purpose) ==
    [media_name |-> name,
     feature_vector |-> fv,
     predicted_label |-> predicted,
     max_prediction_probability |-> <<prob>>,
     annotated_label |-> annotated,
     purpose |-> purpose]

----------------------------------------------------------------------------
\* COODModel._split_data

\* int(split_ratio * len(data)) with split_ratio = num/den
TrainSizeCeil(num, den, n) == (num * n + den - 1) \div den

TrainSize(num, den, n) == (num * n) \div den

\* the subsets of S with exactly k members
RECURSIVE KSubsets(_, _)
KSubsets(S, k) ==
    IF k = 0 THEN {{}}
    ELSE IF Cardinality(S) < k THEN {}
    ELSE Only({{T \cup (S \ rest) : T \in KSubsets(rest, k - 1)}
                   \cup KSubsets(rest, k) :
               rest \in {S \ {CHOOSE y \in S : TRUE}}})

\* np.random.choice(n, size, replace=False): any `size` distinct indices
RandomChoice(n, size) == KSubsets(1..n, size)

ClassIndices(labels, c) == {i \in DOMAIN labels : labels[i] = c}

\* samples stratified_selection takes of a class with `count` members
SamplesPerClass(count, num, den, minPerClass) ==
    LET want == IF TrainSize(num, den, count) > minPerClass
                THEN TrainSize(num, den, count) ELSE minPerClass
    IN IF want > count THEN count ELSE want

\* stratified_selection(x, y, fraction, min_samples_per_class): every index
\* set that holds, of each class in y, SamplesPerClass of its members
RECURSIVE StratifiedPick(_, _, _, _, _)
StratifiedPick(labels, classes, num, den, minPerClass) ==
    IF classes = {} THEN {{}}
    ELSE LET c == CHOOSE y \in classes : TRUE
             members == ClassIndices(labels, c)
             take == SamplesPerClass(Cardinality(members), num, den,
                                     minPerClass)
         IN {A \cup B :
                A \in KSubsets(members, take),
                B \in StratifiedPick(labels, classes \ {c}, num, den,
                                     minPerClass)}

StratifiedSelection(labels, num, den, minPerClass) ==
    StratifiedPick(labels, Range(labels), num, den, minPerClass)

\* an assignment that writes TRAIN at the selected indices and nothing else
AssignTrainPurposeOnly(data, train_indices) ==
    [idx \in DOMAIN data |->
        IF idx \in train_indices THEN [data[idx] EXCEPT !.purpose = TRAIN]
        ELSE data[idx]]

\* how often the two loops of _assign_train_test_purpose_to_data write the
\* purpose of each item: once per occurrence in train_indices, and once
\* more if the index is not among them
PurposeWrites(data, train_indices) ==
    [idx \in DOMAIN data |->
        Cardinality({i \in train_indices : i = idx})
            + (IF idx \notin train_indices THEN 1 ELSE 0)]

\* _assign_train_test_purpose_to_data: a purpose is overwritten
AssignTrainTestPurposeToData(data, train_indices) ==
    [idx \in DOMAIN data |->
        [data[idx] EXCEPT !.purpose =
            IF idx \in train_indices THEN TRAIN ELSE TEST]]

\* the index sets _split_data may select
SelectedIndicesUnstratified(data, stratified, num, den) ==
    RandomChoice(Len(data), TrainSize(num, den, Len(data)))

SelectedIndices(data, stratified, num, den) ==
    IF stratified
    THEN StratifiedSelection([i \in DOMAIN data |-> data[i].annotated_label],
                             num, den, MinSamplesPerClass)
    ELSE RandomChoice(Len(data), TrainSize(num, den, Len(data)))

\* a _split_data that takes the random choice whatever `stratified` is
SplitDataAtRandom(data, stratified, num, den) ==
    {AssignTrainTestPurposeToData(data, S) :
        S \in SelectedIndices(data, FALSE, num, den)}

\* the lists _split_data may leave behind
SplitData(data, stratified, num, den) ==
    {AssignTrainTestPurposeToData(data, S) :
        S \in SelectedIndices(data, stratified, num, den)}

----------------------------------------------------------------------------
\* detect_ood.utils, as the sub-models use it

\* what faiss reports in the slots past the end of an index with fewer than
\* k vectors: the largest float as distance, -1 as neighbour
FaissNoDistance == 1000
FaissNoNeighbour == 0 - 1

SqDist(x, y) == (x - y) * (x - y)

\* perform_knn_indexing(feature_vectors): the indexed vectors, in order
PerformKnnIndexing(feature_vectors) == feature_vectors

\* the neighbours of q in `index`, nearest first (ties: lower position)
RECURSIVE NearestFirst(_, _, _)
NearestFirst(index, q, left) ==
    IF left = {} THEN <<>>
    ELSE Only({Only({<<[distance |-> SqDist(index[i], q), neighbour |-> i]>>
                         \o NearestFirst(index, q, rest) :
                     rest \in {left \ {i}}}) :
               i \in {CHOOSE j \in left : \A l \in left :
                   \/ SqDist(index[j], q) < SqDist(index[l], q)
                   \/ (SqDist(index[j], q) = SqDist(index[l], q) /\ j <= l)}})

\* perform_knn_search(index, feature_vectors, k), one row: k slots sorted
\* by distance
PerformKnnSearch(index, q, k) ==
    Only({Array([j \in 1..k |->
              IF j <= Len(found) THEN found[j]
              ELSE [distance |-> FaissNoDistance,
                    neighbour |-> FaissNoNeighbour]]) :
          found \in {NearestFirst(index, q, DOMAIN index)}})

\* calculate_entropy_nearest_neighbours, one row: the entropy of the label
\* distribution among the k neighbours, kept as that distribution (how many
\* labels occur n times, for every n); numpy reads position -1 as the last
EntropyNearestNeighbours(train_labels, row, k) ==
    Only({Only({Array([n \in 1..k |->
                    Cardinality({c \in DOMAIN occurs : occurs[c] = n})]) :
                occurs \in {[c \in Range(labelOf) |->
                    Cardinality({j \in 1..k : labelOf[j] = c})]}}) :
          labelOf \in {Array([j \in 1..k |->
              IF row[j].neighbour = FaissNoNeighbour
              THEN train_labels[Len(train_labels)]
              ELSE train_labels[row[j].neighbour]])}})

\* fit_pca_model(feature_vectors, n_components): the subspace through the
\* training vectors; of one-dimensional vectors it is the whole line when
\* two of them differ and the single point otherwise
FitPcaModel(feature_vectors) == [support |-> Range(feature_vectors)]

\* fre_score(feature_vectors, pca_model), one row: the squared distance
\* between the vector and its projection onto the subspace
FreScore(fv, pca_model) ==
    IF Cardinality(pca_model.support) >= 2 THEN 0
    ELSE LET p == CHOOSE x \in pca_model.support : TRUE IN SqDist(fv, p)

RECURSIVE SumSeq(_)
SumSeq(s) == IF s = <<>> THEN 0 ELSE Head(s) + SumSeq(Tail(s))

MinOf(S) == CHOOSE x \in S : \A y \in S : x <= y

----------------------------------------------------------------------------
\* OODSubModel and its four variants
Kinds == {"knn_based", "class_fre", "global_fre", "max_softmax_probability"}

\* __init__ of each variant; OODSubModel.__init__ sets _is_trained = False
SubModelInitTrained(kind, knn_k) ==
    [kind |-> kind,
     is_trained |-> (kind = "max_softmax_probability"),
     knn_k |-> IF kind = "knn_based" THEN Some(knn_k) ELSE Nothing,
     knn_search_index |-> Nothing,
     train_set_labels |-> Nothing,
     pca_model |-> Nothing,
     pca_models_per_class |-> IF kind = "class_fre" THEN Some(<<>>)
                              ELSE Nothing]

SubModelInit(kind, knn_k) ==
    [kind |-> kind,
     is_trained |-> FALSE,
     knn_k |-> IF kind = "knn_based" THEN Some(knn_k) ELSE Nothing,
     knn_search_index |-> Nothing,
     train_set_labels |-> Nothing,
     pca_model |-> Nothing,
     pca_models_per_class |-> IF kind = "class_fre" THEN Some(<<>>)
                              ELSE Nothing]

FeatureVectors(items) ==
    Array([i \in DOMAIN items |-> items[i].feature_vector])
AnnotatedLabels(items) ==
    Array([i \in DOMAIN items |-> items[i].annotated_label])

\* np.array([]) of an empty list has one dimension; the index and the PCA
\* fit take two-dimensional input only
TrainRaises(m, distribution_data) ==
    /\ m.kind \in {"knn_based", "global_fre"}
    /\ distribution_data = <<>>

\* a train() whose per-class variant adds the new subspaces to those it has
SubModelTrainKeepingClasses(m, distribution_data) ==
    CASE m.kind = "knn_based" ->
            [m EXCEPT !.train_set_labels =
                          Some(AnnotatedLabels(distribution_data)),
                      !.knn_search_index = Some(
                          PerformKnnIndexing(FeatureVectors(distribution_data))),
                      !.is_trained = TRUE]
      [] m.kind = "global_fre" ->
            [m EXCEPT !.pca_model =
                          Some(FitPcaModel(FeatureVectors(distribution_data))),
                      !.is_trained = TRUE]
      [] m.kind = "class_fre" ->
            [m EXCEPT !.pca_models_per_class = Some(
                          [label \in Range(AnnotatedLabels(distribution_data))
                                     \cup DOMAIN Get(m.pca_models_per_class) |->
                              IF label \in
                                     Range(AnnotatedLabels(distribution_data))
                              THEN FitPcaModel(FeatureVectors(SelectSeq(
                                       distribution_data,
                                       LAMBDA it : it.annotated_label = label)))
                              ELSE Get(m.pca_models_per_class)[label]]),
                      !.is_trained = TRUE]
      [] OTHER -> [m EXCEPT !.is_trained = TRUE]

\* train() of each variant
SubModelTrain(m, distribution_data) ==
    CASE m.kind = "knn_based" ->
            [m EXCEPT !.train_set_labels =
                          Some(AnnotatedLabels(distribution_data)),
                      !.knn_search_index = Some(
                          PerformKnnIndexing(FeatureVectors(distribution_data))),
                      !.is_trained = TRUE]
      [] m.kind = "global_fre" ->
            [m EXCEPT !.pca_model =
                          Some(FitPcaModel(FeatureVectors(distribution_data))),
                      !.is_trained = TRUE]
      [] m.kind = "class_fre" ->
            [m EXCEPT !.pca_models_per_class = Some(
                          [label \in Range(AnnotatedLabels(distribution_data)) |->
                              FitPcaModel(FeatureVectors(SelectSeq(
                                  distribution_data,
                                  LAMBDA it : it.annotated_label = label)))]),
                      !.is_trained = TRUE]
      [] OTHER -> [m EXCEPT !.is_trained = TRUE]

Scores(d) == [raised |-> "", scores |-> d]
Raised(e) == [raised |-> e, scores |-> <<>>]

\* KNNBasedOODModel.forward
KnnForward(m, data_items) ==
    IF data_items = <<>> THEN Raised("ValueError")
    ELSE
    LET n == Len(data_items)
        k == Get(m.knn_k)
    IN
    Only({Only({Only({Only({Scores(<<
        [name |-> "knn_distance", values |->
            Array([i \in 1..n |-> distances[i][k].distance])],
        [name |-> "nn_distance", values |-> nn_distance],
        [name |-> "average_nn_distance", values |-> average_nn_distance],
        [name |-> "entropy_score", values |-> entropy_score],
        [name |-> "enwedi_score", values |->
            Array([i \in 1..n |-> [product |-> <<average_nn_distance[i],
                                                 entropy_score[i]>>]])],
        [name |-> "enwedi_nn_score", values |->
            Array([i \in 1..n |-> [product |-> <<nn_distance[i],
                                                 entropy_score[i]>>]])]>>) :
         entropy_score \in {Array([i \in 1..n |->
             [entropy_of |-> EntropyNearestNeighbours(
                                 Get(m.train_set_labels), distances[i], k),
              plus |-> 1]])}}) :
         average_nn_distance \in {Array([i \in 1..n |->
             [sum |-> SumSeq(Array([j \in 1..(k - 1) |->
                                       distances[i][j + 1].distance])),
              over |-> k - 1]])}}) :
         nn_distance \in {Array([i \in 1..n |-> distances[i][2].distance])}}) :
         distances \in {Array([i \in 1..n |->
             PerformKnnSearch(Get(m.knn_search_index),
                              data_items[i].feature_vector, k)])}})

\* a forward that emits its score under a name of the per-class variant
GlobalFreForwardNamedAsMinimum(m, data_items) ==
    IF ~m.is_trained THEN Raised("NotTrained")
    ELSE IF data_items = <<>> THEN Raised("ValueError")
    ELSE Scores(<<
        [name |-> "min_class_fre_score", values |->
            Array([i \in DOMAIN data_items |->
                FreScore(data_items[i].feature_vector, Get(m.pca_model))])]>>)

\* GlobalFREBasedModel.forward
GlobalFreForward(m, data_items) ==
    IF ~m.is_trained THEN Raised("NotTrained")
    ELSE IF data_items = <<>> THEN Raised("ValueError")
    ELSE Scores(<<
        [name |-> "global_fre_score", values |->
            Array([i \in DOMAIN data_items |->
                FreScore(data_items[i].feature_vector, Get(m.pca_model))])]>>)

\* a forward whose gap is minimum - predicted
ClassFreForwardGapReversed(m, data_items) ==
    LET models == Get(m.pca_models_per_class)
        labels == DOMAIN models
        n == Len(data_items)
        fre(label, i) == FreScore(data_items[i].feature_vector, models[label])
    IN IF ~m.is_trained THEN Raised("NotTrained")
       ELSE IF data_items = <<>> /\ labels # {} THEN Raised("ValueError")
       ELSE IF \E i \in 1..n : data_items[i].predicted_label \notin labels
            THEN Raised("KeyError")
       ELSE
       Only({Only({Scores(<<
           [name |-> "min_class_fre_score", values |-> minimum],
           [name |-> "predicted_class_fre_score", values |-> predicted],
           [name |-> "diff_min_and_predicted_class_fre", values |->
               Array([i \in 1..n |->
                         [eps |-> 1,
                          units |-> minimum[i] - predicted[i]]])]>>) :
            minimum \in {Array([i \in 1..n |->
                             MinOf({fre(l, i) : l \in labels})])}}) :
            predicted \in {Array([i \in 1..n |->
                               fre(data_items[i].predicted_label, i)])}})

\* ClassFREBasedModel.forward; 1e-8 is kept as the unit `eps`
ClassFreForward(m, data_items) ==
    LET models == Get(m.pca_models_per_class)
        labels == DOMAIN models
        n == Len(data_items)
        fre(label, i) == FreScore(data_items[i].feature_vector, models[label])
    IN IF ~m.is_trained THEN Raised("NotTrained")
       ELSE IF data_items = <<>> /\ labels # {} THEN Raised("ValueError")
       ELSE IF \E i \in 1..n : data_items[i].predicted_label \notin labels
            THEN Raised("KeyError")
       ELSE
       Only({Only({Scores(<<
           [name |-> "min_class_fre_score", values |-> minimum],
           [name |-> "predicted_class_fre_score", values |-> predicted],
           [name |-> "diff_min_and_predicted_class_fre", values |->
               Array([i \in 1..n |->
                         [eps |-> 1,
                          units |-> predicted[i] - minimum[i]]])]>>) :
            minimum \in {Array([i \in 1..n |->
                             MinOf({fre(l, i) : l \in labels})])}}) :
            predicted \in {Array([i \in 1..n |->
                               fre(data_items[i].predicted_label, i)])}})

\* a forward that reports the probability of the first item for every item
ProbabilityForwardOfFirstItem(m, data_items) ==
    Scores(<<
        [name |-> "max_softmax_probability", values |->
            Array([i \in DOMAIN data_items |->
                data_items[1].max_prediction_probability[1]])]>>)

\* a forward that scores an item by its top probability only while the item
\* carries no annotated label
ProbabilityForwardOfUnlabelled(m, data_items) ==
    Scores(<<
        [name |-> "max_softmax_probability", values |->
            Array([i \in DOMAIN data_items |->
                IF data_items[i].annotated_label = ""
                THEN data_items[i].max_prediction_probability[1]
                ELSE 0])]>>)

\* ProbabilityBasedModel.forward
ProbabilityForward(m, data_items) ==
    Scores(<<
        [name |-> "max_softmax_probability", values |->
            Array([i \in DOMAIN data_items |->
                data_items[i].max_prediction_probability[1]])]>>)

Forward(m, data_items) ==
    CASE m.kind = "knn_based" -> KnnForward(m, data_items)
      [] m.kind = "global_fre" -> GlobalFreForward(m, data_items)
      [] m.kind = "class_fre" -> ClassFreForward(m, data_items)
      [] OTHER -> ProbabilityForward(m, data_items)

\* OODSubModel.__call__
SubModelCall(m, data_items) ==
    IF ~m.is_trained THEN Raised("NotTrained") ELSE Forward(m, data_items)

----------------------------------------------------------------------------
\* Values of the variables a specification does not use
IdleSplit ==
    /\ sdata = <<>>
    /\ nsplits = 0
    /\ lastStratified = FALSE

IdleSub ==
    /\ sub = Nothing
    /\ subTrainCount = 0
    /\ subCall = Nothing

IdleCood ==
    /\ pc = "idle"
    /\ project = None
    /\ ood_reference_images_dir = None
    /\ corruption_transform = None
    /\ fs = {}
    /\ ood_source = None
    /\ id_distribution_data = <<>>
    /\ ood_distribution_data = <<>>
    /\ sub_models = <<>>
    /\ ood_classifier = Nothing
    /\ stages = <<>>
    /\ error = None
    /\ trainLog = <<>>
    /\ fitLog = Nothing
    /\ evalLog = Nothing
    /\ callLog = Nothing

IdleCallers ==
    /\ callers = <<>>
    /\ predict_proba = <<>>

IdleCollect ==
    /\ collector = Nothing
    /\ disk = [folders |-> {}, files |-> {}]
    /\ clock = 0
    /\ collected = Nothing

----------------------------------------------------------------------------
\* SpecSplit: _split_data on a list of items, grouped by annotated label

UnsplitItem(label) == DistributionDataItem("image", 0, label, 9, label, None)

LabelledList(ca, cb, cc) ==
    Repeat(UnsplitItem("a"), ca) \o Repeat(UnsplitItem("b"), cb)
        \o Repeat(UnsplitItem("c"), cc)

InitSplit ==
    /\ \E ca, cb, cc \in 0..MaxPerClass : sdata = LabelledList(ca, cb, cc)
    /\ nsplits = 0
    /\ lastStratified = FALSE
    /\ IdleSub
    /\ IdleCood
    /\ IdleCallers
    /\ IdleCollect

\* self._split_data(data, stratified=True, split_ratio=self.train_test_split)
SplitStratified ==
    /\ nsplits < MaxSplits
    /\ \E d \in SplitData(sdata, TRUE, SplitRatioNum, SplitRatioDen) :
            sdata' = d
    /\ nsplits' = nsplits + 1
    /\ lastStratified' = TRUE
    /\ UNCHANGED <<subVars, coodVars, callVars, collectVars>>

\* self._split_data(data, stratified=False, split_ratio=self.train_test_split)
SplitRandom ==
    /\ nsplits < MaxSplits
    /\ \E d \in SplitData(sdata, FALSE, SplitRatioNum, SplitRatioDen) :
            sdata' = d
    /\ nsplits' = nsplits + 1
    /\ lastStratified' = FALSE
    /\ UNCHANGED <<subVars, coodVars, callVars, collectVars>>

NextSplit == SplitStratified \/ SplitRandom

SpecSplit == InitSplit /\ [][NextSplit]_vars

----------------------------------------------------------------------------
\* SpecSub: one sub-model, constructed, then trained and called in any order

SubClasses == {"a", "b"}
SubKnnK == {2, 3}
Probabilities == {6, 9}     \* top-1 probabilities, in tenths

RECURSIVE SeqsUpTo(_, _)
SeqsUpTo(S, n) ==
    IF n = 0 THEN {<<>>}
    ELSE LET shorter == SeqsUpTo(S, n - 1)
         IN shorter \cup {Append(q, x) : q \in shorter, x \in S}

\* ID items handed to train(): annotated, purpose TRAIN
TrainItems ==
    {DistributionDataItem("image", fv, l, 9, l, TRAIN) :
        fv \in 0..MaxFeature, l \in SubClasses}

\* items handed to __call__
QueryItems ==
    {DistributionDataItem("sample", fv, l, p, "", None) :
        fv \in 0..MaxFeature, l \in SubClasses, p \in Probabilities}

InitSub ==
    /\ \E kind \in Kinds, k \in SubKnnK :
            sub = Some(SubModelInit(kind, k))
    /\ subTrainCount = 0
    /\ subCall = Nothing
    /\ IdleSplit
    /\ IdleCood
    /\ IdleCallers
    /\ IdleCollect

\* sub_model.train(distribution_data)
SubTrain ==
    /\ subTrainCount < MaxSubTrains
    /\ \E items \in SeqsUpTo(TrainItems, MaxTrainItems) :
            /\ ~TrainRaises(Get(sub), items)
            /\ sub' = Some(SubModelTrain(Get(sub), items))
    /\ subTrainCount' = subTrainCount + 1
    /\ UNCHANGED <<subCall, splitVars, coodVars, callVars, collectVars>>

\* sub_model(data_items)
SubCall ==
    /\ \E items \in SeqsUpTo(QueryItems, MaxQueryItems) :
            subCall' = Some([data_items |-> items,
                             trained_before |-> subTrainCount,
                             result |-> SubModelCall(Get(sub), items)])
    /\ UNCHANGED <<sub, subTrainCount, splitVars, coodVars, callVars,
                   collectVars>>

NextSub == SubTrain \/ SubCall

SpecSub == InitSub /\ [][NextSub]_vars

----------------------------------------------------------------------------
\* COODModel: scoring, feature aggregation and the random forest

\* scores_all_sub_models[score_type] = values on an insertion-ordered dict:
\* an existing key keeps its place, a new key goes last
DictSet(d, name, values) ==
    IF \E i \in DOMAIN d : d[i].name = name
    THEN Array([i \in DOMAIN d |->
            IF d[i].name = name THEN [name |-> name, values |-> values]
            ELSE d[i]])
    ELSE Append(d, [name |-> name, values |-> values])

RECURSIVE DictUpdate(_, _)
DictUpdate(d, scores) ==
    IF scores = <<>> THEN d
    ELSE Only({DictUpdate(updated, Tail(scores)) :
              updated \in {DictSet(d, Head(scores).name, Head(scores).values)}})

RECURSIVE InferFrom(_, _, _, _)
InferFrom(models, j, distribution_data, acc) ==
    IF j > Len(models) THEN Scores(acc)
    ELSE Only({IF r.raised # "" THEN Raised(r.raised)
               ELSE Only({InferFrom(models, j + 1, distribution_data,
                                    updated) :
                          updated \in {DictUpdate(acc, r.scores)}}) :
               r \in {SubModelCall(models[j].model, distribution_data)}})

\* _infer_sub_models, with the sub-models taken last to first when one item
\* is scored
InferSubModelsReversedForOne(models, distribution_data) ==
    IF Len(distribution_data) = 1
    THEN InferFrom([j \in DOMAIN models |-> models[Len(models) + 1 - j]], 1,
                   distribution_data, <<>>)
    ELSE InferFrom(models, 1, distribution_data, <<>>)

\* COODModel._infer_sub_models
InferSubModels(models, distribution_data) ==
    InferFrom(models, 1, distribution_data, <<>>)

\* COODModel._aggregate_sub_model_scores_into_cood_features: one row per
\* image, one column per score in the order of the dict
AggregateSubModelScoresIntoCoodFeatures(scores_all_sub_models, num_images) ==
    Array([r \in 1..num_images |->
        Array([c \in DOMAIN scores_all_sub_models |->
            scores_all_sub_models[c].values[r]])])

\* the score name behind each column of the matrix
ColumnNames(scores_all_sub_models) ==
    Array([c \in DOMAIN scores_all_sub_models |->
        scores_all_sub_models[c].name])

\* the label vector with the ones of the OOD rows first
AllLabelsOodFirst(num_id_images, num_ood_images) ==
    Repeat(1, num_ood_images) \o Repeat(0, num_id_images)

\* np.concatenate((np.zeros(num_id_images), np.ones(num_ood_images)))
AllLabels(num_id_images, num_ood_images) ==
    Repeat(0, num_id_images) \o Repeat(1, num_ood_images)

\* RandomForestClassifier().fit(X, y): classes_ are the sorted labels seen
RandomForestFit(all_features, all_labels) ==
    [classes_ |-> SetToSeq(Range(all_labels)),
     n_features_in_ |-> IF all_features = <<>> THEN 0
                        ELSE Len(all_features[1])]

\* the rows predict_proba may return for one sample: one probability per
\* class of classes_, in multiples of 1/ProbaSteps, adding up to 1
PredictProbaRows(classifier) ==
    {row \in [DOMAIN classifier.classes_ -> 0..ProbaSteps] :
        SumSeq(row) = ProbaSteps}

\* the sub-models of a COODModel, in the order of the dict literal
NewSubModels ==
    <<[name |-> "knn_based", model |-> SubModelInit("knn_based", KnnK)],
      [name |-> "class_fre", model |-> SubModelInit("class_fre", KnnK)],
      [name |-> "global_fre", model |-> SubModelInit("global_fre", KnnK)],
      [name |-> "max_softmax_probability",
       model |-> SubModelInit("max_softmax_probability", KnnK)]>>

MediaNames(items) == Array([i \in DOMAIN items |-> items[i].media_name])

\* COODModel._train_sub_models: train() of every sub-model in dict order,
\* up to the first that raises
RECURSIVE TrainFrom(_, _, _, _)
TrainFrom(models, j, train_data, log) ==
    IF j > Len(models) THEN [models |-> models, log |-> log, raised |-> ""]
    ELSE IF TrainRaises(models[j].model, train_data)
         THEN [models |-> models,
               log |-> Append(log, [name |-> models[j].name,
                                    items |-> MediaNames(train_data)]),
               raised |-> "ValueError"]
    ELSE Only({Only({TrainFrom(trained, j + 1, train_data, logged) :
                     logged \in {Append(log,
                                        [name |-> models[j].name,
                                         items |-> MediaNames(train_data)])}}) :
               trained \in {[models EXCEPT ![j].model =
                                SubModelTrain(models[j].model, train_data)]}})

TrainSubModelsOnAll(models, train_id_data, train_ood_data) ==
    TrainFrom(models, 1, train_id_data \o train_ood_data, <<>>)

\* _train_sub_models run a second time on the sub-models it has trained
TrainSubModelsTwice(models, train_id_data, train_ood_data) ==
    Only({IF first.raised # "" THEN first
          ELSE TrainFrom(first.models, 1, train_id_data, first.log) :
          first \in {TrainFrom(models, 1, train_id_data, <<>>)}})

\* self._train_sub_models(train_data=train_id_data) inside _train
TrainSubModels(models, train_id_data, train_ood_data) ==
    TrainFrom(models, 1, train_id_data, <<>>)

----------------------------------------------------------------------------
\* Spec: COODModel.__init__ step by step, then COODModel.__call__

\* the statements of COODModel.__init__ in the order they are written, then
\* the state of the constructed object
InitStepsReadyBeforeEvaluate ==
    <<"check_project_fit", "select_deployment", "prepare_data", "split_data",
      "train_sub_models", "train_classifier", "return", "evaluate", "ready">>

InitStepsCheckAfterTraining ==
    <<"select_deployment", "prepare_data", "split_data", "train_sub_models",
      "check_project_fit", "train_classifier", "evaluate", "return", "ready">>

InitSteps ==
    <<"check_project_fit", "select_deployment", "prepare_data", "split_data",
      "train_sub_models", "train_classifier", "evaluate", "return", "ready">>

\* the statement after `step`
Following(step) ==
    InitSteps[1 + CHOOSE i \in DOMAIN InitSteps : InitSteps[i] = step]

TaskTypes == {"classification", "detection"}
DatasetsInProject == {{}, {"Dataset"}, {"OOD reference dataset"},
                      {"Dataset", "OOD reference dataset"}}
ID_DATASET_NAMES == {"Dataset"}
OOD_DATASET_NAMES == {"OOD reference dataset"}
Deployments == {None, "has_xai_head", "no_xai_head"}   \* `deployment`
DirArguments == {None, "", "ood_dir"}    \* ood_images_dir

\* directories below self.data_dir
IdImagesDir == "images/Dataset"      \* _prepare_distribution_data, line 640
RefImagesDir == "Dataset/images"     \* _create_ood_images, line 579
OodImagesDir == "ood_images"         \* _create_ood_images, line 580

\* the file system is a set of <<directory, files in it>>
DirExists(files, dir) == \E d \in files : d[1] = dir
ListDir(files, dir) == (CHOOSE d \in files : d[1] = dir)[2]
WriteFiles(files, dir, names) ==
    IF DirExists(files, dir)
    THEN (files \ {<<dir, ListDir(files, dir)>>})
            \cup {<<dir, ListDir(files, dir) \cup names>>}
    ELSE files \cup {<<dir, names>>}

\* a workspace_dir of the caller that already holds images of an earlier run
StaleWorkspace == {<<RefImagesDir, {<<"stale", 1>>, <<"stale", 2>>}>>}

\* the orders in which os.listdir may report the files of a directory
RECURSIVE Orders(_)
Orders(S) ==
    IF S = {} THEN {<<>>}
    ELSE UNION {{<<x>> \o q : q \in Orders(S \ {x})} : x \in S}

IdFeature(i) == i % (MaxFeature + 1)
OodFeature(i) == (i + 1) % (MaxFeature + 1)

\* _prepare_distribution_data(source=dataset): one item per image of the
\* dataset, annotated with the label of its annotation file
ItemsOfDataset(prefix, labels, predicted, prob) ==
    [i \in DOMAIN labels |->
        DistributionDataItem(<<prefix, i>>,
                             IF prefix = "id" THEN IdFeature(i)
                             ELSE OodFeature(i),
                             predicted[i], prob, labels[i], None)]

\* _prepare_distribution_data(source=directory): one item per image file
\* of the directory, without annotation
ItemsOfDirectory(names, predicted, prob) ==
    [i \in DOMAIN names |->
        DistributionDataItem(names[i], OodFeature(i), predicted[i], prob,
                             None, None)]

InitCood ==
    /\ pc = InitSteps[1]
    /\ project \in [num_tasks : 0..2, task_type : TaskTypes,
                     datasets : DatasetsInProject]
    /\ ood_reference_images_dir \in DirArguments
    /\ fs \in {{}, StaleWorkspace}
    /\ corruption_transform = None
    /\ ood_source = None
    /\ id_distribution_data = <<>>
    /\ ood_distribution_data = <<>>
    /\ sub_models = <<>>
    /\ ood_classifier = Nothing
    /\ stages = <<>>
    /\ error = None
    /\ trainLog = <<>>
    /\ fitLog = Nothing
    /\ evalLog = Nothing
    /\ callLog = Nothing
    /\ IdleSplit
    /\ IdleSub
    /\ IdleCallers
    /\ IdleCollect

\* an exception leaves __init__: no COODModel object comes to exist
Abort(e) ==
    /\ pc' = "aborted"
    /\ error' = e

\* self._check_project_fit()
CheckProjectFit ==
    /\ pc = "check_project_fit"
    /\ IF project.num_tasks # 1
       THEN Abort("ValueError: not a single task")
       ELSE IF project.task_type # "classification"
       THEN Abort("ValueError: not a classification task")
       ELSE pc' = Following("check_project_fit") /\ UNCHANGED error
    /\ UNCHANGED <<project, ood_reference_images_dir, corruption_transform,
                   fs, ood_source, id_distribution_data,
                   ood_distribution_data, sub_models, ood_classifier, stages,
                   trainLog, fitLog, evalLog, callLog, splitVars, subVars,
                   callVars, collectVars>>

\* lines 214-241: the deployment, then the corruption transform
SelectDeployment ==
    /\ pc = "select_deployment"
    /\ \E deployment \in Deployments :
          IF deployment = "no_xai_head"
          THEN /\ Abort("ValueError: deployment without XAI head")
               /\ UNCHANGED corruption_transform
          ELSE /\ pc' = Following("select_deployment")
               /\ corruption_transform' =
                      IF ood_reference_images_dir = None
                      THEN "CutoutTransform" ELSE None
               /\ UNCHANGED error
    /\ UNCHANGED <<project, ood_reference_images_dir, fs, ood_source,
                   id_distribution_data, ood_distribution_data, sub_models,
                   ood_classifier, stages, trainLog, fitLog, evalLog,
                   callLog, splitVars, subVars, callVars, collectVars>>

\* `if self.ood_reference_images_dir:` - None and "" are both false
Truthy(dir) == dir # None /\ dir # ""

\* self._prepare_id_ood_data() and the two assignments after it
PrepareIdOodData ==
    /\ pc = "prepare_data"
    /\ \E id_labels \in SeqsUpTo(SubClasses, MaxIdItems),
          ood_predicted \in SeqsUpTo(SubClasses, MaxOodItems) :
        LET has_id_dataset == project.datasets \cap ID_DATASET_NAMES # {}
            has_ood_dataset == project.datasets \cap OOD_DATASET_NAMES # {}
            id_items == ItemsOfDataset("id", id_labels, id_labels, 9)
            fs1 == WriteFiles(fs, IdImagesDir, Range(MediaNames(id_items)))
            n == Len(ood_predicted)
        IN
        IF ~has_id_dataset
        THEN /\ Abort("ValueError: no in-distribution dataset")
             /\ UNCHANGED <<fs, ood_source, id_distribution_data,
                            ood_distribution_data, stages>>
        ELSE IF Truthy(ood_reference_images_dir)
        THEN \* Case 1: the reference images provided by the user
             /\ fs' = fs1
             /\ ood_source' = "directory"
             /\ id_distribution_data' = id_items
             /\ ood_distribution_data' =
                    ItemsOfDirectory([i \in 1..n |-> <<"ood", i>>],
                                     ood_predicted, 6)
             /\ stages' = Append(stages, "DataPrepared")
             /\ pc' = Following("prepare_data")
             /\ UNCHANGED error
        ELSE IF has_ood_dataset
        THEN \* Case 2: the OOD datasets in the project
             /\ fs' = WriteFiles(fs1, "images/OOD reference dataset",
                                 {<<"ood", i>> : i \in 1..n})
             /\ ood_source' = "dataset"
             /\ id_distribution_data' = id_items
             /\ ood_distribution_data' =
                    ItemsOfDataset("ood", [i \in 1..n |-> "a"],
                                   ood_predicted, 6)
             /\ stages' = Append(stages, "DataPrepared")
             /\ pc' = Following("prepare_data")
             /\ UNCHANGED error
        ELSE \* Case 3: _create_ood_images, then the items of its output
             IF ~DirExists(fs1, RefImagesDir)
             THEN /\ Abort("FileNotFoundError: reference images")
                  /\ fs' = WriteFiles(fs1, OodImagesDir, {})
                  /\ ood_source' = "synthetic"
                  /\ UNCHANGED <<id_distribution_data, ood_distribution_data,
                                 stages>>
             ELSE IF ListDir(fs1, RefImagesDir) # {}
                     /\ corruption_transform = None
             THEN /\ Abort("TypeError: corruption_transform is None")
                  /\ fs' = WriteFiles(fs1, OodImagesDir, {})
                  /\ ood_source' = "synthetic"
                  /\ UNCHANGED <<id_distribution_data, ood_distribution_data,
                                 stages>>
             ELSE LET fs2 == WriteFiles(fs1, OodImagesDir,
                                        ListDir(fs1, RefImagesDir))
                  IN /\ fs' = fs2
                     /\ ood_source' = "synthetic"
                     /\ id_distribution_data' = id_items
                     /\ \E names \in Orders(ListDir(fs2, OodImagesDir)),
                           predicted \in [1..Cardinality(ListDir(fs2,
                                             OodImagesDir)) -> SubClasses] :
                           ood_distribution_data' =
                               ItemsOfDirectory(names, predicted, 6)
                     /\ stages' = Append(stages, "DataPrepared")
                     /\ pc' = Following("prepare_data")
                     /\ UNCHANGED error
    /\ UNCHANGED <<project, ood_reference_images_dir, corruption_transform,
                   sub_models, ood_classifier, trainLog, fitLog, evalLog,
                   callLog, splitVars, subVars, callVars, collectVars>>

\* the two self._split_data calls, lines 252-261
SplitIdAndOodData ==
    /\ pc = "split_data"
    /\ \E id_split \in SplitData(id_distribution_data, TRUE,
                                 SplitRatioNum, SplitRatioDen),
          ood_split \in SplitData(ood_distribution_data, FALSE,
                                  SplitRatioNum, SplitRatioDen) :
          /\ id_distribution_data' = id_split
          /\ ood_distribution_data' = ood_split
    /\ pc' = Following("split_data")
    /\ UNCHANGED <<project, ood_reference_images_dir, corruption_transform, fs,
                   ood_source, sub_models, ood_classifier, stages, error,
                   trainLog, fitLog, evalLog, callLog, splitVars, subVars,
                   callVars, collectVars>>

\* a selection that returns the whole list, whatever the purpose asked for
ItemsOfAnyPurpose(data, p) == data

PurposeIndices(data, p) == {i \in DOMAIN data : data[i].purpose = p}
ItemsWithPurpose(data, p) == SelectSeq(data, LAMBDA it : it.purpose = p)

\* lines 263-283 and 408-412: the sub-models are created and each is
\* trained by _train_sub_models
CreateAndTrainSubModels ==
    /\ pc = "train_sub_models"
    /\ \E t \in {TrainSubModels(NewSubModels,
                       ItemsWithPurpose(id_distribution_data, TRAIN),
                       ItemsWithPurpose(ood_distribution_data, TRAIN))} :
          /\ sub_models' = t.models
          /\ trainLog' = trainLog \o t.log
          /\ IF t.raised # ""
             THEN Abort(t.raised) /\ UNCHANGED stages
             ELSE /\ pc' = Following("train_sub_models")
                  /\ stages' = Append(stages, "SubModelsTrained")
                  /\ UNCHANGED error
    /\ UNCHANGED <<project, ood_reference_images_dir, corruption_transform, fs,
                   ood_source, id_distribution_data, ood_distribution_data,
                   ood_classifier, fitLog, evalLog, callLog, splitVars,
                   subVars, callVars, collectVars>>

\* what _train and _evaluate_model build from an ID and an OOD item list:
\* the scores, the two feature matrices, the combined matrix and labels
FeaturesAndLabels(models, id_data, ood_data) ==
    Only({IF id_scores.raised # "" THEN [raised |-> id_scores.raised]
          ELSE
          Only({IF ood_scores.raised # "" THEN [raised |-> ood_scores.raised]
                ELSE [raised |-> "",
                      id_items |-> MediaNames(id_data),
                      ood_items |-> MediaNames(ood_data),
                      id_columns |-> ColumnNames(id_scores.scores),
                      ood_columns |-> ColumnNames(ood_scores.scores),
                      all_features |->
                          AggregateSubModelScoresIntoCoodFeatures(
                              id_scores.scores, Len(id_data))
                          \o AggregateSubModelScoresIntoCoodFeatures(
                                 ood_scores.scores, Len(ood_data)),
                      all_labels |-> AllLabels(Len(id_data), Len(ood_data))] :
                ood_scores \in {InferSubModels(models, ood_data)}}) :
          id_scores \in {InferSubModels(models, id_data)}})

\* lines 414-436 of _train: scores, features, labels, classifier fit
TrainClassifier ==
    /\ pc = "train_classifier"
    /\ \E f \in {FeaturesAndLabels(sub_models,
                       ItemsWithPurpose(id_distribution_data, TRAIN),
                       ItemsWithPurpose(ood_distribution_data, TRAIN))} :
          IF f.raised # ""
          THEN /\ Abort(f.raised)
               /\ UNCHANGED <<ood_classifier, fitLog, stages>>
          ELSE /\ ood_classifier' =
                      Some(RandomForestFit(f.all_features, f.all_labels))
               /\ fitLog' = Some(f)
               /\ stages' = Append(stages, "ClassifierTrained")
               /\ pc' = Following("train_classifier")
               /\ UNCHANGED error
    /\ UNCHANGED <<project, ood_reference_images_dir, corruption_transform, fs,
                   ood_source, id_distribution_data, ood_distribution_data,
                   sub_models, trainLog, evalLog, callLog, splitVars,
                   subVars, callVars, collectVars>>

\* lines 286-300 and _evaluate_model: the accuracy on the TEST items is
\* logged, not kept
EvaluateModel ==
    /\ pc = "evaluate"
    /\ \E f \in {FeaturesAndLabels(sub_models,
                       ItemsWithPurpose(id_distribution_data, TEST),
                       ItemsWithPurpose(ood_distribution_data, TEST))} :
          IF f.raised # ""
          THEN /\ Abort(f.raised)
               /\ UNCHANGED <<evalLog, stages>>
          ELSE IF Len(f.all_features[1]) # Get(ood_classifier).n_features_in_
          THEN /\ Abort("ValueError")
               /\ UNCHANGED <<evalLog, stages>>
          ELSE /\ evalLog' = Some(f)
               /\ stages' = Append(stages, "Evaluated")
               /\ pc' = Following("evaluate")
               /\ UNCHANGED error
    /\ UNCHANGED <<project, ood_reference_images_dir, corruption_transform, fs,
                   ood_source, id_distribution_data, ood_distribution_data,
                   sub_models, ood_classifier, trainLog, fitLog, callLog,
                   splitVars, subVars, callVars, collectVars>>

\* __init__ returns: the COODModel exists and can be called
Return ==
    /\ pc = "return"
    /\ pc' = Following("return")
    /\ stages' = Append(stages, "Ready")
    /\ UNCHANGED <<project, ood_reference_images_dir, corruption_transform, fs,
                   ood_source, id_distribution_data, ood_distribution_data,
                   sub_models, ood_classifier, error, trainLog, fitLog,
                   evalLog, callLog, splitVars, subVars, callVars,
                   collectVars>>

\* the predictions a caller may pass to COODModel.__call__
Predictions ==
    {[feature_vector |-> fv, label |-> l, probability |-> 9] :
        fv \in 0..MaxFeature, l \in SubClasses}

\* COODModel.__call__(prediction); proba is the row predict_proba returns
CoodCall(models, classifier, prediction, proba) ==
    Only({IF scores.raised # "" THEN [raised |-> scores.raised]
             ELSE IF Len(scores.scores) # classifier.n_features_in_
             THEN [raised |-> "ValueError"]
             ELSE IF Len(proba) < 2 THEN [raised |-> "IndexError"]
             ELSE [raised |-> "",
                   columns |-> ColumnNames(scores.scores),
                   features_arranged |->
                       AggregateSubModelScoresIntoCoodFeatures(scores.scores,
                                                               1),
                   cood_score |-> <<proba>>,
                   returned |-> proba[2]] :
         scores \in {InferSubModels(models,
             <<DistributionDataItem("sample", prediction.feature_vector,
                                    prediction.label, prediction.probability,
                                    "", None)>>)}})

\* __call__ as it would be if it kept the wrapped item among the ID items
CallKeepingTheItem ==
    /\ pc = "ready"
    /\ \E prediction \in Predictions,
          proba \in PredictProbaRows(Get(ood_classifier)) :
          \E outcome \in {CoodCall(sub_models, Get(ood_classifier),
                                   prediction, proba)} :
              /\ callLog' = Some([prediction |-> prediction,
                                  outcome |-> outcome])
              /\ id_distribution_data' = Append(id_distribution_data,
                     DistributionDataItem("sample",
                                          prediction.feature_vector,
                                          prediction.label,
                                          prediction.probability, "", None))
    /\ UNCHANGED <<pc, project, ood_reference_images_dir, corruption_transform,
                   fs, ood_source, ood_distribution_data, sub_models,
                   ood_classifier, stages, error, trainLog, fitLog, evalLog,
                   splitVars, subVars, callVars, collectVars>>

Call ==
    /\ pc = "ready"
    /\ \E prediction \in Predictions,
          proba \in PredictProbaRows(Get(ood_classifier)) :
          \E outcome \in {CoodCall(sub_models, Get(ood_classifier),
                                   prediction, proba)} :
              callLog' = Some([prediction |-> prediction,
                               outcome |-> outcome])
    /\ UNCHANGED <<pc, project, ood_reference_images_dir, corruption_transform,
                   fs, ood_source, id_distribution_data,
                   ood_distribution_data, sub_models, ood_classifier, stages,
                   error, trainLog, fitLog, evalLog, splitVars, subVars,
                   callVars, collectVars>>

Next ==
    \/ CheckProjectFit
    \/ SelectDeployment
    \/ PrepareIdOodData
    \/ SplitIdAndOodData
    \/ CreateAndTrainSubModels
    \/ TrainClassifier
    \/ EvaluateModel
    \/ Return
    \/ Call

Spec == InitCood /\ [][Next]_vars

----------------------------------------------------------------------------
\* SpecCallers: callers of one constructed COODModel, each inside its own
\* COODModel.__call__, their statements interleaved in any order

Callers == 1..MaxCallers

\* the ID labels and the predicted labels of the OOD images of the projects
\* the model is constructed for
CallerIdLabels == {<<"a", "a", "b">>, <<"a", "a", "a">>}
CallerOodLabels == {<<"a", "b">>}

\* data_item of __call__
SampleItem(prediction) ==
    DistributionDataItem("sample", prediction.feature_vector,
                         prediction.label, prediction.probability, "", None)

\* the feature rows the sub-models `models` give the callers' predictions
CallerRows(models) ==
    {AggregateSubModelScoresIntoCoodFeatures(
         InferSubModels(models, <<SampleItem(p)>>).scores, 1)[1] :
        p \in {q \in Predictions :
                  InferSubModels(models, <<SampleItem(q)>>).raised = ""}}

\* the object __init__ returns for a single-task classification project
\* with the dataset "Dataset", given a directory of OOD images and a new
\* workspace: all of __init__ has run and __call__ has not been called
ConstructedModel ==
    /\ pc = "ready"
    /\ project = [num_tasks |-> 1, task_type |-> "classification",
                  datasets |-> {"Dataset"}]
    /\ ood_reference_images_dir = "ood_dir"
    /\ corruption_transform = None
    /\ ood_source = "directory"
    /\ error = None
    /\ stages = <<"DataPrepared", "SubModelsTrained", "ClassifierTrained",
                  "Evaluated", "Ready">>
    /\ callLog = Nothing
    /\ \E id_labels \in CallerIdLabels, ood_predicted \in CallerOodLabels :
        \E id_items \in {ItemsOfDataset("id", id_labels, id_labels, 9)},
           ood_items \in {ItemsOfDirectory(
                              [i \in DOMAIN ood_predicted |-> <<"ood", i>>],
                              ood_predicted, 6)} :
        /\ fs = WriteFiles({}, IdImagesDir, Range(MediaNames(id_items)))
        /\ \E id_split \in SplitData(id_items, TRUE,
                                     SplitRatioNum, SplitRatioDen),
              ood_split \in SplitData(ood_items, FALSE,
                                      SplitRatioNum, SplitRatioDen) :
            /\ id_distribution_data = id_split
            /\ ood_distribution_data = ood_split
            /\ \E t \in {TrainSubModels(NewSubModels,
                               ItemsWithPurpose(id_split, TRAIN),
                               ItemsWithPurpose(ood_split, TRAIN))} :
                /\ t.raised = ""
                /\ sub_models = t.models
                /\ trainLog = t.log
                /\ \E f \in {FeaturesAndLabels(t.models,
                                   ItemsWithPurpose(id_split, TRAIN),
                                   ItemsWithPurpose(ood_split, TRAIN))},
                      e \in {FeaturesAndLabels(t.models,
                                   ItemsWithPurpose(id_split, TEST),
                                   ItemsWithPurpose(ood_split, TEST))} :
                    /\ f.raised = ""
                    /\ e.raised = ""
                    /\ ood_classifier = Some(RandomForestFit(f.all_features,
                                                             f.all_labels))
                    /\ fitLog = Some(f)
                    /\ evalLog = Some(e)

\* the local variables of a __call__ that has not started
NotCalling ==
    [pc |-> "idle", prediction |-> Nothing, data_item |-> Nothing, next |-> 0,
     scores_all_sub_models |-> <<>>, features_arranged |-> <<>>,
     cood_score |-> <<>>, outcome |-> Nothing]

InitCallers ==
    /\ ConstructedModel
    /\ callers = [c \in Callers |-> NotCalling]
    /\ predict_proba \in [CallerRows(sub_models) ->
                              PredictProbaRows(Get(ood_classifier))]
    /\ IdleSplit
    /\ IdleSub
    /\ IdleCollect

\* whose scores_all_sub_models the statements of caller c use, were the
\* dict an attribute of the COODModel
ScoresOwnerIsTheModel(c) == 1

\* whose scores_all_sub_models the statements of caller c use: the dict is
\* a local variable of _infer_sub_models (line 444), so its own
ScoresOwner(c) == c

\* lines 495-501 and 444: the prediction is wrapped, the dict is created
CallBegin(c) ==
    /\ callers[c].pc \in {"idle", "done"}
    /\ \E prediction \in Predictions :
          callers' = [callers EXCEPT
              ![c] = [NotCalling EXCEPT
                         !.pc = "infer",
                         !.prediction = Some(prediction),
                         !.data_item = Some(SampleItem(prediction)),
                         !.next = 1,
                         !.scores_all_sub_models =
                             callers[c].scores_all_sub_models],
              ![ScoresOwner(c)].scores_all_sub_models = <<>>]
    /\ UNCHANGED <<predict_proba, coodVars, splitVars, subVars,
                 collectVars>>

\* lines 445-448: one turn of the loop over self.sub_models.values()
CallInferSubModel(c) ==
    /\ callers[c].pc = "infer"
    /\ callers[c].next <= Len(sub_models)
    /\ \E r \in {SubModelCall(sub_models[callers[c].next].model,
                               <<Get(callers[c].data_item)>>)} :
          IF r.raised # ""
          THEN callers' = [callers EXCEPT
                   ![c].pc = "done",
                   ![c].outcome = Some([raised |-> r.raised])]
          ELSE callers' = [callers EXCEPT
                   ![c].next = @ + 1,
                   ![ScoresOwner(c)].scores_all_sub_models =
                       DictUpdate(@, r.scores)]
    /\ UNCHANGED <<predict_proba, coodVars, splitVars, subVars,
                 collectVars>>

\* lines 449 and 502-504: the dict is returned and arranged as one row
CallAggregate(c) ==
    /\ callers[c].pc = "infer"
    /\ callers[c].next > Len(sub_models)
    /\ callers' = [callers EXCEPT
           ![c].pc = "predict_proba",
           ![c].features_arranged =
               AggregateSubModelScoresIntoCoodFeatures(
                   callers[ScoresOwner(c)].scores_all_sub_models, 1)]
    /\ UNCHANGED <<predict_proba, coodVars, splitVars, subVars,
                 collectVars>>

\* line 506: self.ood_classifier.predict_proba(features_arranged)
CallPredictProba(c) ==
    /\ callers[c].pc = "predict_proba"
    /\ IF \/ Len(callers[c].features_arranged[1])
                 # Get(ood_classifier).n_features_in_
          \/ callers[c].features_arranged[1] \notin DOMAIN predict_proba
       THEN callers' = [callers EXCEPT
                ![c].pc = "done",
                ![c].outcome = Some([raised |-> "ValueError"])]
       ELSE callers' = [callers EXCEPT
                ![c].pc = "return",
                ![c].cood_score =
                    <<predict_proba[callers[c].features_arranged[1]]>>]
    /\ UNCHANGED <<predict_proba, coodVars, splitVars, subVars,
                 collectVars>>

\* line 508: return cood_score[0][1]
CallReturn(c) ==
    /\ callers[c].pc = "return"
    /\ callers' = [callers EXCEPT
           ![c].pc = "done",
           ![c].outcome =
               IF Len(callers[c].cood_score[1]) < 2
               THEN Some([raised |-> "IndexError"])
               ELSE Some([raised |-> "",
                          columns |-> ColumnNames(
                              callers[ScoresOwner(c)].scores_all_sub_models),
                          features_arranged |-> callers[c].features_arranged,
                          cood_score |-> callers[c].cood_score,
                          returned |-> callers[c].cood_score[1][2]])]
    /\ UNCHANGED <<predict_proba, coodVars, splitVars, subVars,
                 collectVars>>

NextCallers ==
    \E c \in Callers :
        \/ CallBegin(c)
        \/ CallInferSubModel(c)
        \/ CallAggregate(c)
        \/ CallPredictProba(c)
        \/ CallReturn(c)

SpecCallers == InitCallers /\ [][NextCallers]_vars

----------------------------------------------------------------------------

\* SpecCollect: FileSystemDataCollection.  Paths are relative to
\* target_folder; a file is <<folder, name, extension>>; datetime.now() is
\* read in microseconds, the resolution the file name keeps.

ImagesFolder == "images"
PredictionsFolder == "predictions"
ScoresFolder == "scores"
FolderNames == {ImagesFolder, PredictionsFolder, ScoresFolder}
Prefixes == {"image"}
\* the score argument: None, or a float (0.0 among them)
ScoreArguments == {Nothing, Some(0), Some(5)}

\* os.makedirs(path, exist_ok=True)
MakeDirs(folders, path) == folders \cup {path}

\* lines 61-68: the list folders_to_create
FoldersToCreate(save_predictions, save_scores) ==
    <<ImagesFolder>>
        \o (IF save_predictions THEN <<PredictionsFolder>> ELSE <<>>)
        \o (IF save_scores THEN <<ScoresFolder>> ELSE <<>>)

\* lines 70-71: the loop over folders_to_create
RECURSIVE MakeAllDirs(_, _)
MakeAllDirs(folders, paths) ==
    IF paths = <<>> THEN folders
    ELSE MakeAllDirs(MakeDirs(folders, Head(paths)), Tail(paths))

\* the attributes __init__ sets; predictions_path and scores_path exist only
\* when their option is on
FileSystemDataCollection(prefix, save_predictions, save_scores) ==
    [image_path |-> ImagesFolder,
     predictions_path |->
         IF save_predictions THEN Some(PredictionsFolder) ELSE Nothing,
     scores_path |-> IF save_scores THEN Some(ScoresFolder) ELSE Nothing,
     prefix |-> prefix,
     save_predictions |-> save_predictions,
     save_scores |-> save_scores]

\* line 92: self.prefix + "_" + datetime.now().strftime(...)
Filename(prefix, now) == <<prefix, "_", now>>

\* the files one call would write if a score of 0.0 counted as no score
FilesOfCallScoreIfTruthy(c, filename, score) ==
    {<<c.image_path, filename, "png">>}
        \cup (IF c.save_predictions
              THEN {<<Get(c.predictions_path), filename, "json">>} ELSE {})
        \cup (IF c.save_scores /\ score # Nothing /\ score # Some(0)
              THEN {<<Get(c.scores_path), filename, "txt">>} ELSE {})

\* lines 93-107: the files one call writes
FilesOfCall(c, filename, score) ==
    {<<c.image_path, filename, "png">>}
        \cup (IF c.save_predictions
              THEN {<<Get(c.predictions_path), filename, "json">>} ELSE {})
        \cup (IF c.save_scores /\ score # Nothing
              THEN {<<Get(c.scores_path), filename, "txt">>} ELSE {})

InitCollect ==
    /\ collector = Nothing
    /\ \E existing \in SUBSET FolderNames :
          disk = [folders |-> existing, files |-> {}]
    /\ clock = 0
    /\ collected = Nothing
    /\ IdleSplit
    /\ IdleSub
    /\ IdleCood
    /\ IdleCallers

\* FileSystemDataCollection(target_folder, file_name_prefix,
\*                          save_predictions, save_scores)
CollectInit ==
    /\ collector = Nothing
    /\ \E prefix \in Prefixes, save_predictions, save_scores \in BOOLEAN :
          /\ disk' = [disk EXCEPT !.folders =
                 MakeAllDirs(@, FoldersToCreate(save_predictions,
                                                save_scores))]
          /\ collector' = Some(FileSystemDataCollection(
                 prefix, save_predictions, save_scores))
    /\ UNCHANGED <<clock, collected, splitVars, subVars, coodVars, callVars>>

\* collector(image, prediction, score)
CollectCall ==
    /\ collector # Nothing
    /\ \E now \in {clock, clock + 1} \cap (0..MaxClock),
          score \in ScoreArguments :
          \E wrote \in {FilesOfCall(Get(collector),
                         Filename(Get(collector).prefix, now), score)} :
              /\ clock' = now
              /\ disk' = [disk EXCEPT !.files = @ \cup wrote]
              /\ collected' = Some(
                     [score |-> score,
                      filename |-> Filename(Get(collector).prefix, now),
                      wrote |-> wrote])
    /\ UNCHANGED <<collector, splitVars, subVars, coodVars, callVars>>

NextCollect == CollectInit \/ CollectCall

SpecCollect == InitCollect /\ [][NextCollect]_vars

----------------------------------------------------------------------------

\* Properties of the split (SpecSplit)

Abs(x) == IF x < 0 THEN 0 - x ELSE x

LabelsOf(data) == [i \in DOMAIN data |-> data[i].annotated_label]

ClassCount(data, c) == Cardinality(ClassIndices(LabelsOf(data), c))

ClassPurposeCount(data, c, p) ==
    Cardinality(ClassIndices(LabelsOf(data), c) \cap PurposeIndices(data, p))

AfterStratifiedSplit == nsplits > 0 /\ lastStratified

AfterRandomSplit == nsplits > 0 /\ ~lastStratified

\* every class with at least 2 items has an item in TRAIN and one in TEST
BothPartitionsHoldEveryClassOfTwo ==
    \A c \in Classes :
        ClassCount(sdata, c) >= 2 =>
            /\ ClassPurposeCount(sdata, c, TRAIN) >= 1
            /\ ClassPurposeCount(sdata, c, TEST) >= 1

\* C7 as stated: after the stratified split every class with at least 2
\* items is present in TRAIN and in TEST, and the number of TRAIN items is
\* within one sample of split_ratio * (number of items).
C7_AsStated ==
    AfterStratifiedSplit =>
        /\ BothPartitionsHoldEveryClassOfTwo
        /\ Abs(SplitRatioDen * Cardinality(PurposeIndices(sdata, TRAIN))
                - SplitRatioNum * Len(sdata)) <= SplitRatioDen

\* C7 amended: after the stratified split every class with at least 2 items
\* is present in TRAIN and in TEST, and for every class the number of its
\* TRAIN items is within one sample of split_ratio * (items of that class).
C7_StratifiedPerClass ==
    AfterStratifiedSplit =>
        /\ BothPartitionsHoldEveryClassOfTwo
        /\ \A c \in Classes :
              Abs(SplitRatioDen * ClassPurposeCount(sdata, c, TRAIN)
                  - SplitRatioNum * ClassCount(sdata, c)) < SplitRatioDen

\* a stratified split of three classes, one of them with 2 items and one
\* with 4, has happened
C7_Witness ==
    /\ AfterStratifiedSplit
    /\ ClassCount(sdata, "a") = 2
    /\ ClassCount(sdata, "b") = 4
    /\ ClassCount(sdata, "c") = 1
    /\ ClassPurposeCount(sdata, "a", TEST) = 1
    /\ ClassPurposeCount(sdata, "b", TRAIN) = 3

\* C8: after the non-stratified split of n items exactly
\* floor(split_ratio * n) items are TRAIN and the other n - floor(...) are
\* TEST, at the ratio 0.90 of the ID split; 100 items give 90 and 10.
C8_RandomSplitSizes ==
    /\ AfterRandomSplit =>
        /\ Cardinality(PurposeIndices(sdata, TRAIN))
               = (SplitRatioNum * Len(sdata)) \div SplitRatioDen
        /\ Cardinality(PurposeIndices(sdata, TEST))
               = Len(sdata) - (SplitRatioNum * Len(sdata)) \div SplitRatioDen
        /\ PurposeIndices(sdata, TRAIN) \cup PurposeIndices(sdata, TEST)
               = DOMAIN sdata
    /\ TrainSize(SplitRatioNum, SplitRatioDen, 100) = 90

\* a non-stratified split of 12 items into 10 TRAIN and 2 TEST has happened
C8_Witness ==
    /\ AfterRandomSplit
    /\ Len(sdata) = 12
    /\ Cardinality(PurposeIndices(sdata, TRAIN)) = 10
    /\ Cardinality(PurposeIndices(sdata, TEST)) = 2

----------------------------------------------------------------------------
\* Properties of one sub-model (SpecSub)

\* C1: __call__ on a sub-model of any variant on which train has never been
\* called raises the "not trained" error and returns no scores, for every
\* item list.
C1_UntrainedCallRaises ==
    (subCall # Nothing /\ Get(subCall).trained_before = 0) =>
        /\ Get(subCall).result.raised = "NotTrained"
        /\ Get(subCall).result.scores = <<>>

\* the max-probability variant has been called, untrained, with one item
C1_Witness ==
    /\ subCall # Nothing
    /\ subTrainCount = 0
    /\ Get(sub).kind = "max_softmax_probability"
    /\ Len(Get(subCall).data_items) = 1
    /\ Get(subCall).result.raised = "NotTrained"

TrainedFeatures == Range(Get(Get(sub).knn_search_index))

NameIndex(scores, name) == CHOOSE i \in DOMAIN scores : scores[i].name = name

ScoreValues(result, name) ==
    result.scores[NameIndex(result.scores, name)].values

\* the last call was a neighbour-based scoring that returned scores, made
\* after the training that the index now holds, and the index holds at
\* least k vectors (every slot of the search is a real neighbour)
KnnScored ==
    /\ subCall # Nothing
    /\ Get(sub).kind = "knn_based"
    /\ Get(subCall).trained_before = subTrainCount
    /\ Get(subCall).result.raised = ""
    /\ Len(Get(Get(sub).knn_search_index)) >= Get(Get(sub).knn_k)

\* C9 as stated: a query whose feature vector equals that of a training
\* item gets nn_distance 0 from the neighbour-based sub-model.
C9_AsStated ==
    KnnScored =>
        \A i \in DOMAIN Get(subCall).data_items :
            Get(subCall).data_items[i].feature_vector \in TrainedFeatures =>
                ScoreValues(Get(subCall).result, "nn_distance")[i] = 0

----------------------------------------------------------------------------
\* Properties of the construction and of inference (Spec)

ConfigurationErrors ==
    {"ValueError: not a single task",
     "ValueError: not a classification task",
     "ValueError: deployment without XAI head",
     "ValueError: no in-distribution dataset"}

\* the project passes _check_project_fit and has an in-distribution dataset
ProjectFits ==
    /\ project.num_tasks = 1
    /\ project.task_type = "classification"
    /\ project.datasets \cap ID_DATASET_NAMES # {}

BeforeDataIsPrepared ==
    pc \in {"check_project_fit", "select_deployment", "prepare_data"}

\* C2: a configuration failure (not exactly one trainable task, task not
\* classification, deployment without XAI head, no in-distribution dataset)
\* ends construction with its error before train is called on any sub-model:
\* when such an error has been raised no sub-model exists or has been
\* trained, a project with such a failure never gets past data preparation,
\* and sub-models are trained for well-configured projects only.
C2_ConfigurationErrorsBeforeTraining ==
    /\ error \in ConfigurationErrors =>
          /\ pc = "aborted"
          /\ trainLog = <<>>
          /\ sub_models = <<>>
          /\ stages = <<>>
    /\ ~ProjectFits =>
          /\ BeforeDataIsPrepared \/ pc = "aborted"
          /\ pc = "aborted" => error \in ConfigurationErrors
    /\ trainLog # <<>> => ProjectFits

\* construction of a single-task classification project without the dataset
\* "Dataset" has reached _prepare_id_ood_data and was ended there
C2_Witness ==
    /\ pc = "aborted"
    /\ error = "ValueError: no in-distribution dataset"
    /\ project.num_tasks = 1
    /\ project.task_type = "classification"
    /\ trainLog = <<>>

StageOrder ==
    <<"DataPrepared", "SubModelsTrained", "ClassifierTrained", "Evaluated",
      "Ready">>

IsPrefix(s, t) ==
    /\ Len(s) <= Len(t)
    /\ \A i \in DOMAIN s : s[i] = t[i]

\* C3: the stages completed so far are always an initial part of
\* DataPrepared, SubModelsTrained, ClassifierTrained, Evaluated, Ready (that
\* order, each once); the model is ready, and can be called, only with all
\* five completed; once a stage has raised, construction is aborted and
\* Ready is not among the stages.
C3_StagesInOrder ==
    /\ IsPrefix(stages, StageOrder)
    /\ (pc = "ready") <=> (stages = StageOrder)
    /\ callLog # Nothing => stages = StageOrder
    /\ (error # None) <=> (pc = "aborted")
    /\ pc = "aborted" => "Ready" \notin Range(stages)

\* construction has completed with all five stages, in order
C3_Witness ==
    /\ pc = "ready"
    /\ stages = StageOrder
    /\ error = None

SourceByPreference ==
    IF Truthy(ood_reference_images_dir) THEN "directory"
    ELSE IF project.datasets \cap OOD_DATASET_NAMES # {} THEN "dataset"
    ELSE "synthetic"

\* C4 as stated: once _prepare_id_ood_data has run for a well-configured
\* project, the OOD source is the directory if one is given (a non-empty
\* path), else the OOD dataset if the project has one, else the synthetic
\* images, and in every combination the data is prepared and construction
\* goes on with that source.
C4_AsStated ==
    (ProjectFits /\ ~BeforeDataIsPrepared
        /\ error \notin ConfigurationErrors) =>
        /\ ood_source = SourceByPreference
        /\ "DataPrepared" \in Range(stages)

\* C5: every train() call of a sub-model during construction got exactly
\* the ID items whose purpose is TRAIN and no OOD item; the classifier fit
\* got those ID items and the OOD items whose purpose is TRAIN.
C5_SubModelsTrainOnIdTrainOnly ==
    /\ \A i \in DOMAIN trainLog :
          /\ trainLog[i].items =
                 MediaNames(ItemsWithPurpose(id_distribution_data, TRAIN))
          /\ Range(trainLog[i].items)
                 \cap Range(MediaNames(ood_distribution_data)) = {}
    /\ fitLog # Nothing =>
          /\ Get(fitLog).id_items =
                 MediaNames(ItemsWithPurpose(id_distribution_data, TRAIN))
          /\ Get(fitLog).ood_items =
                 MediaNames(ItemsWithPurpose(ood_distribution_data, TRAIN))

\* all four sub-models were trained and the classifier was fitted on ID and
\* OOD items
C5_Witness ==
    /\ Len(trainLog) = 4
    /\ trainLog[1].items # <<>>
    /\ fitLog # Nothing
    /\ Get(fitLog).ood_items # <<>>
    /\ Get(fitLog).id_items # <<>>

\* C6: scoring and aggregating the training items again with the trained
\* sub-models gives the matrix the classifier was fitted on, column for
\* column, and the score names of the columns are the same for the ID and
\* the OOD rows of the fit, in evaluation, and in every __call__.
C6_ColumnOrderFixed ==
    /\ fitLog # Nothing =>
          /\ FeaturesAndLabels(sub_models,
                 ItemsWithPurpose(id_distribution_data, TRAIN),
                 ItemsWithPurpose(ood_distribution_data, TRAIN)) = Get(fitLog)
          /\ Get(fitLog).ood_columns = Get(fitLog).id_columns
    /\ evalLog # Nothing =>
          /\ Get(evalLog).id_columns = Get(fitLog).id_columns
          /\ Get(evalLog).ood_columns = Get(fitLog).id_columns
    /\ (callLog # Nothing /\ Get(callLog).outcome.raised = "") =>
          /\ Get(callLog).outcome.columns = Get(fitLog).id_columns
          /\ Len(Get(callLog).outcome.features_arranged[1])
                 = Len(Get(fitLog).all_features[1])

\* a constructed model, fitted on at least two ID rows, has scored a
\* prediction
C6_Witness ==
    /\ callLog # Nothing
    /\ Get(callLog).outcome.raised = ""
    /\ evalLog # Nothing
    /\ Len(Get(fitLog).id_items) >= 2
    /\ Len(Get(callLog).outcome.columns) = 11

\* C10 as stated: every __call__ of a constructed model returns the entry
\* at class index 1 of the classifier's probabilities, classes_[1] being the
\* OOD class, with the value in [0,1] and the two probabilities adding up
\* to 1 (probabilities are in units of 1/ProbaSteps).
C10_AsStated ==
    callLog # Nothing =>
        /\ Get(callLog).outcome.raised = ""
        /\ Get(ood_classifier).classes_ = <<0, 1>>
        /\ Get(callLog).outcome.returned = Get(callLog).outcome.cood_score[1][2]
        /\ Get(callLog).outcome.returned \in 0..ProbaSteps
        /\ SumSeq(Get(callLog).outcome.cood_score[1]) = ProbaSteps

\* C11: once construction has completed, no step (every step is then a
\* __call__) changes the ID or OOD items or their purposes, a sub-model's
\* fitted parameters or trained flag, or the fitted classifier.
C11_InferenceIsReadOnly ==
    [][pc = "ready" =>
          /\ pc' = "ready"
          /\ id_distribution_data' = id_distribution_data
          /\ ood_distribution_data' = ood_distribution_data
          /\ sub_models' = sub_models
          /\ ood_classifier' = ood_classifier]_vars

\* a constructed model built from three ID items has been called and has
\* returned a score
C11_Witness ==
    /\ pc = "ready"
    /\ callLog # Nothing
    /\ Get(callLog).outcome.raised = ""
    /\ Len(id_distribution_data) = MaxIdItems
    /\ \A j \in DOMAIN sub_models : sub_models[j].model.is_trained

\* the train() calls made so far on the sub-model registered as `name`
TrainCalls(name) ==
    Cardinality({i \in DOMAIN trainLog : trainLog[i].name = name})

\* C13: every sub-model is created untrained; during one construction
\* train is called on it at most once, and exactly once, with the ID items
\* of purpose TRAIN, when sub-model training has completed; a trained flag
\* that is true stays true; and once trained, no scoring call, in
\* construction or in __call__, raises the "not trained" error.
C13_TrainedOnceThenCallable ==
    /\ [](/\ \A j \in DOMAIN NewSubModels :
                  ~NewSubModels[j].model.is_trained
          /\ \A j \in DOMAIN sub_models :
                  /\ TrainCalls(sub_models[j].name) <= 1
                  /\ sub_models[j].model.is_trained =>
                         TrainCalls(sub_models[j].name) = 1
          /\ "SubModelsTrained" \in Range(stages) =>
                  /\ Len(sub_models) = Len(NewSubModels)
                  /\ \A j \in DOMAIN sub_models :
                         /\ sub_models[j].model.is_trained
                         /\ trainLog[j].name = sub_models[j].name
                         /\ trainLog[j].items = MediaNames(
                                ItemsWithPurpose(id_distribution_data, TRAIN))
                  /\ error # "NotTrained"
                  /\ callLog # Nothing =>
                         Get(callLog).outcome.raised # "NotTrained")
    /\ [][\A j \in DOMAIN sub_models :
              sub_models[j].model.is_trained =>
                  /\ j \in DOMAIN sub_models'
                  /\ sub_models'[j].model.is_trained]_vars

\* the four sub-models were each trained once, in dict order, and the
\* constructed model has then answered a call
C13_Witness ==
    /\ Len(trainLog) = 4
    /\ trainLog[1].name = "knn_based"
    /\ trainLog[4].name = "max_softmax_probability"
    /\ \A j \in DOMAIN sub_models : sub_models[j].model.is_trained
    /\ evalLog # Nothing
    /\ callLog # Nothing

\* the score names sub-model j emits for `items`
EmittedNames(j, items) ==
    ColumnNames(SubModelCall(sub_models[j].model, items).scores)

\* C14: the score names the registered sub-models emit are pairwise
\* distinct, within a sub-model and across sub-models, so the merged
\* dict has one entry, and every row of the feature matrix one column,
\* per emitted score: their number is the sum of the numbers of scores of
\* the sub-models, in the fit and in every __call__.
C14_ScoreNamesDistinct ==
    fitLog # Nothing =>
        LET items == ItemsWithPurpose(id_distribution_data, TRAIN)
            total == SumSeq([j \in DOMAIN sub_models |->
                                Len(EmittedNames(j, items))])
        IN /\ \A j \in DOMAIN sub_models :
                 /\ Cardinality(Range(EmittedNames(j, items)))
                        = Len(EmittedNames(j, items))
                 /\ \A l \in DOMAIN sub_models :
                        j # l => Range(EmittedNames(j, items))
                                    \cap Range(EmittedNames(l, items)) = {}
           /\ Len(Get(fitLog).id_columns) = total
           /\ Cardinality(Range(Get(fitLog).id_columns)) = total
           /\ \A r \in DOMAIN Get(fitLog).all_features :
                 Len(Get(fitLog).all_features[r]) = total
           /\ (callLog # Nothing /\ Get(callLog).outcome.raised = "") =>
                 /\ Len(Get(callLog).outcome.features_arranged[1]) = total
                 /\ Cardinality(Range(Get(callLog).outcome.columns)) = total

\* the classifier was fitted on a matrix of 6 + 3 + 1 + 1 columns
C14_Witness ==
    /\ fitLog # Nothing
    /\ Len(Get(fitLog).all_features) >= 2
    /\ Len(Get(fitLog).all_features[1]) = 11
    /\ Len(EmittedNames(1, ItemsWithPurpose(id_distribution_data, TRAIN))) = 6
    /\ Len(EmittedNames(2, ItemsWithPurpose(id_distribution_data, TRAIN))) = 3

----------------------------------------------------------------------------
\* Further properties of the split (SpecSplit)

\* C15: after a split every item has purpose TRAIN or TEST and none is
\* unset; the TRAIN items are exactly the items at one of the index sets
\* the split may select for the list, all others are TEST, whatever purpose
\* the items had before (a second split overwrites the first); and the two
\* loops write the purpose of every item exactly once.
C15_EveryItemTrainOrTest ==
    nsplits > 0 =>
        /\ \A i \in DOMAIN sdata : sdata[i].purpose \in {TRAIN, TEST}
        /\ PurposeIndices(sdata, None) = {}
        /\ \E S \in SelectedIndices(sdata, lastStratified,
                                     SplitRatioNum, SplitRatioDen) :
              /\ PurposeIndices(sdata, TRAIN) = S
              /\ PurposeIndices(sdata, TEST) = DOMAIN sdata \ S
        /\ \A S \in SelectedIndices(sdata, lastStratified,
                                     SplitRatioNum, SplitRatioDen) :
              \A idx \in DOMAIN sdata : PurposeWrites(sdata, S)[idx] = 1

\* a list of five items has been split twice, the second time at random,
\* and holds TRAIN and TEST items
C15_Witness ==
    /\ nsplits = 2
    /\ ~lastStratified
    /\ Len(sdata) = 5
    /\ Cardinality(PurposeIndices(sdata, TRAIN)) = 4
    /\ Cardinality(PurposeIndices(sdata, TEST)) = 1

----------------------------------------------------------------------------
\* Further properties of the construction and of inference (Spec)

\* the feature rows of `items` under the trained sub-models
FeatureRows(items) ==
    AggregateSubModelScoresIntoCoodFeatures(
        InferSubModels(sub_models, items).scores, Len(items))

\* the matrix and labels of `log` are those of the ID items of purpose p
\* followed by those of the OOD items of purpose p
RowsAndLabelsAligned(log, p) ==
    LET id_data == ItemsWithPurpose(id_distribution_data, p)
        ood_data == ItemsWithPurpose(ood_distribution_data, p)
        n_id == Len(id_data)
        n_ood == Len(ood_data)
    IN /\ Len(log.all_features) = n_id + n_ood
       /\ Len(log.all_labels) = Len(log.all_features)
       /\ SubSeq(log.all_features, 1, n_id) = FeatureRows(id_data)
       /\ SubSeq(log.all_features, n_id + 1, n_id + n_ood)
              = FeatureRows(ood_data)
       /\ \A r \in 1..n_id : log.all_labels[r] = 0
       /\ \A r \in (n_id + 1)..(n_id + n_ood) : log.all_labels[r] = 1

\* C16: the classifier is fitted on the feature rows of the ID items of
\* purpose TRAIN followed by those of the OOD items of purpose TRAIN, with
\* one label per row, 0 at every ID row and 1 at every OOD row; evaluation
\* scores it on rows and labels aligned the same way for purpose TEST.
C16_RowsAndLabelsAligned ==
    /\ fitLog # Nothing =>
          /\ RowsAndLabelsAligned(Get(fitLog), TRAIN)
          /\ ood_classifier = Some(RandomForestFit(Get(fitLog).all_features,
                                                   Get(fitLog).all_labels))
    /\ evalLog # Nothing => RowsAndLabelsAligned(Get(evalLog), TEST)

\* fitted on two ID rows and one OOD row, evaluated on one ID row and one
\* OOD row
C16_Witness ==
    /\ fitLog # Nothing
    /\ evalLog # Nothing
    /\ Get(fitLog).all_labels = <<0, 0, 1>>
    /\ Get(evalLog).all_labels = <<0, 1>>

----------------------------------------------------------------------------
\* Further properties of one sub-model (SpecSub)

IsProbabilityBased == Get(sub).kind = "max_softmax_probability"

\* the last call returned, under the single name max_softmax_probability,
\* the top-1 probability of each item, in order
ReturnedTopProbabilities ==
    LET call == Get(subCall)
    IN /\ call.result.raised = ""
       /\ Len(call.result.scores) = 1
       /\ call.result.scores[1].name = "max_softmax_probability"
       /\ Len(call.result.scores[1].values) = Len(call.data_items)
       /\ \A i \in DOMAIN call.data_items :
              call.result.scores[1].values[i]
                  = call.data_items[i].max_prediction_probability[1]

\* C17 as stated: the max-probability sub-model is trained from the
\* moment it exists, has no fitted parameters, and every call on it
\* returns the top-1 probabilities under max_softmax_probability.
C17_AsStated ==
    IsProbabilityBased =>
        /\ Get(sub).is_trained
        /\ Get(sub).knn_search_index = Nothing
        /\ Get(sub).pca_model = Nothing
        /\ subCall # Nothing => ReturnedTopProbabilities

\* C17 amended: the max-probability sub-model is created untrained like
\* every other; its train fits no parameters and only sets the trained
\* flag, whatever the item list; a call before train raises the "not
\* trained" error, and every call after train returns, under the single
\* name max_softmax_probability, an array whose i-th entry is the top-1
\* probability of the i-th item.
C17_TrainOnlySetsFlag ==
    IsProbabilityBased =>
        /\ Get(sub).is_trained <=> subTrainCount > 0
        /\ [Get(sub) EXCEPT !.is_trained = FALSE]
               = SubModelInit("max_softmax_probability", Get(Get(sub).knn_k))
        /\ (subCall # Nothing /\ Get(subCall).trained_before = 0) =>
               Get(subCall).result.raised = "NotTrained"
        /\ (subCall # Nothing /\ Get(subCall).trained_before > 0) =>
               ReturnedTopProbabilities

\* the trained max-probability sub-model has scored two items of different
\* top-1 probability
C17_Witness ==
    /\ IsProbabilityBased
    /\ subCall # Nothing
    /\ Get(subCall).trained_before = 1
    /\ Len(Get(subCall).data_items) = 2
    /\ ScoreValues(Get(subCall).result, "max_softmax_probability") = <<6, 9>>

\* the last call was a scoring by the per-class variant that returned
\* scores, made after the training whose subspaces the sub-model holds
ClassFreScored ==
    /\ subCall # Nothing
    /\ Get(sub).kind = "class_fre"
    /\ Get(subCall).trained_before = subTrainCount
    /\ Get(subCall).result.raised = ""

\* C18: for every item the trained per-class variant scored,
\* predicted_class_fre_score is the reconstruction error against the
\* subspace of the item's predicted label, min_class_fre_score is the least
\* error over all fitted class subspaces, and the gap is predicted - min
\* plus one 1e-8; so min <= predicted and the gap is at least 1e-8.
C18_GapIsPredictedMinusMin ==
    ClassFreScored =>
        LET call == Get(subCall)
            models == Get(Get(sub).pca_models_per_class)
            predicted == ScoreValues(call.result, "predicted_class_fre_score")
            minimum == ScoreValues(call.result, "min_class_fre_score")
            gap == ScoreValues(call.result,
                               "diff_min_and_predicted_class_fre")
        IN \A i \in DOMAIN call.data_items :
              LET fv == call.data_items[i].feature_vector
                  errors == {FreScore(fv, models[l]) : l \in DOMAIN models}
              IN /\ predicted[i] = FreScore(fv,
                        models[call.data_items[i].predicted_label])
                 /\ minimum[i] \in errors
                 /\ \A e \in errors : minimum[i] <= e
                 /\ gap[i].eps = 1
                 /\ gap[i].units = predicted[i] - minimum[i]
                 /\ minimum[i] <= predicted[i]
                 /\ gap[i].units >= 0

\* two items were scored against two class subspaces; the first is nearer
\* to the other class than to its predicted class, the second is not
C18_Witness ==
    /\ ClassFreScored
    /\ DOMAIN Get(Get(sub).pca_models_per_class) = {"a", "b"}
    /\ Len(Get(subCall).data_items) = 2
    /\ ScoreValues(Get(subCall).result, "predicted_class_fre_score")
           = <<1, 0>>
    /\ ScoreValues(Get(subCall).result, "min_class_fre_score") = <<0, 0>>

\* a new sub-model of the kind and knn_k of `sub`, trained on `items`
FreshlyTrained(items) ==
    SubModelTrain(SubModelInit(Get(sub).kind, Get(Get(sub).knn_k)), items)

----------------------------------------------------------------------------
\* Further properties of the construction (Spec)

\* the annotated labels of the ID items with these media names
LabelsOfNamed(names) ==
    {id_distribution_data[i].annotated_label :
        i \in {j \in DOMAIN id_distribution_data :
                  id_distribution_data[j].media_name \in Range(names)}}

\* C20: once the ID items are split, every class that occurs among them,
\* a class with a single item included, has at least 1 item of purpose
\* TRAIN, and every class of the ID items occurs in the list each
\* sub-model is trained on.
C20_EveryClassInTrain ==
    (\A i \in DOMAIN id_distribution_data :
         id_distribution_data[i].purpose # None) =>
        /\ \A c \in Classes :
              ClassCount(id_distribution_data, c) >= 1 =>
                  ClassPurposeCount(id_distribution_data, c, TRAIN) >= 1
        /\ Range(LabelsOf(ItemsWithPurpose(id_distribution_data, TRAIN)))
               = Range(LabelsOf(id_distribution_data))
        /\ \A i \in DOMAIN trainLog :
              LabelsOfNamed(trainLog[i].items)
                  = Range(LabelsOf(id_distribution_data))

\* the sub-models were trained on the ID items of a project with two
\* items of class a and a single item of class b, which is in TRAIN
C20_Witness ==
    /\ Len(trainLog) = 4
    /\ ClassCount(id_distribution_data, "a") = 2
    /\ ClassCount(id_distribution_data, "b") = 1
    /\ ClassPurposeCount(id_distribution_data, "b", TRAIN) = 1
    /\ ClassPurposeCount(id_distribution_data, "a", TEST) = 1
    /\ "b" \in LabelsOfNamed(trainLog[1].items)

----------------------------------------------------------------------------
\* Properties of concurrent inference (SpecCallers)

\* what __call__ returns for `prediction` when it runs alone on the model
OutcomeAlone(prediction) ==
    IF InferSubModels(sub_models, <<SampleItem(prediction)>>).raised # ""
    THEN CoodCall(sub_models, Get(ood_classifier), prediction, <<>>)
    ELSE CoodCall(sub_models, Get(ood_classifier), prediction,
                  predict_proba[FeatureRows(<<SampleItem(prediction)>>)[1]])

\* the sub-models whose scores a call has merged before its turn `next`
ScoredSoFar(next) == SubSeq(sub_models, 1, next - 1)

\* C12: with callers running __call__ on one constructed model in any
\* interleaving and nothing retraining it, every local value of a call is
\* the one its own prediction gives on the model (the wrapped item, the
\* scores merged so far, the feature row, the classifier's answer), every
\* finished call has the outcome it has when run alone, and no step of any
\* call changes the model.
C12_ConcurrentCallsIndependent ==
    /\ [](\A c \in Callers :
            LET frame == callers[c] IN
            frame.pc # "idle" =>
                /\ frame.pc # "done" =>
                       frame.data_item = Some(SampleItem(Get(frame.prediction)))
                /\ frame.pc = "infer" =>
                       InferFrom(ScoredSoFar(frame.next), 1,
                                 <<Get(frame.data_item)>>, <<>>)
                           = Scores(frame.scores_all_sub_models)
                /\ frame.pc \in {"predict_proba", "return"} =>
                       frame.features_arranged =
                           FeatureRows(<<Get(frame.data_item)>>)
                /\ frame.pc = "return" =>
                       frame.cood_score =
                           OutcomeAlone(Get(frame.prediction)).cood_score
                /\ frame.pc = "done" =>
                       Get(frame.outcome) = OutcomeAlone(Get(frame.prediction)))
    /\ [][UNCHANGED <<coodVars, predict_proba>>]_vars

\* caller 1 has finished a call that returned a score while caller 2,
\* passing another prediction, is between two sub-models of its own call
C12_Witness ==
    /\ callers[1].pc = "done"
    /\ Get(callers[1].outcome).raised = ""
    /\ callers[2].pc = "infer"
    /\ callers[2].next = 3
    /\ callers[2].prediction # callers[1].prediction
    /\ Len(callers[2].scores_all_sub_models) = 9

----------------------------------------------------------------------------
\* Properties of the synthetic OOD data and of the item lists (Spec)

\* no OOD directory was given and the project has no OOD dataset
SyntheticCase ==
    /\ project.datasets \cap OOD_DATASET_NAMES = {}
    /\ ood_reference_images_dir = None

\* C21 as stated: with no OOD directory and no OOD dataset, once
\* _prepare_id_ood_data has run for a well-configured project the data is
\* prepared, the corrupted images written are one per ID image file, and
\* the OOD items are one per ID item, of the same images.
C21_AsStated ==
    (ProjectFits /\ SyntheticCase /\ ~BeforeDataIsPrepared
        /\ error \notin ConfigurationErrors) =>
        /\ "DataPrepared" \in Range(stages)
        /\ ListDir(fs, OodImagesDir) = ListDir(fs, IdImagesDir)
        /\ Len(ood_distribution_data) = Len(id_distribution_data)
        /\ Range(MediaNames(ood_distribution_data))
               = Range(MediaNames(id_distribution_data))

----------------------------------------------------------------------------
\* Properties of FileSystemDataCollection (SpecCollect)

\* the folders of the files of the last call
FoldersWritten == {f[1] : f \in Get(collected).wrote}

\* what the last call wrote
CallWritesByOptions ==
    collected # Nothing =>
        /\ <<ImagesFolder, Get(collected).filename, "png">>
               \in Get(collected).wrote
        /\ (PredictionsFolder \in FoldersWritten)
               <=> Get(collector).save_predictions
        /\ (ScoresFolder \in FoldersWritten)
               <=> (Get(collector).save_scores
                       /\ Get(collected).score # Nothing)
        /\ Cardinality(Get(collected).wrote) = Cardinality(FoldersWritten)
        /\ \A f \in Get(collected).wrote : f[2] = Get(collected).filename
        /\ Get(collected).wrote \subseteq disk.files
        /\ \A f \in Get(collected).wrote : f[1] \in disk.folders

\* what the constructor created
ConstructorCreatesByOptions ==
    (collector = Nothing /\ collector' # Nothing) =>
        /\ ImagesFolder \in disk'.folders
        /\ Get(collector').save_predictions
               => PredictionsFolder \in disk'.folders
        /\ Get(collector').save_scores => ScoresFolder \in disk'.folders
        /\ ~Get(collector').save_predictions
               => (PredictionsFolder \in disk'.folders
                      <=> PredictionsFolder \in disk.folders)
        /\ ~Get(collector').save_scores
               => (ScoresFolder \in disk'.folders
                      <=> ScoresFolder \in disk.folders)

\* C22: every call writes the image file, the prediction file iff
\* save_predictions, the score file iff save_scores and a score was passed,
\* all under one file-name stem; the constructor creates the images folder
\* always and the predictions / scores folders only when their option is on.
C22_FilesFollowOptions ==
    []CallWritesByOptions /\ [][ConstructorCreatesByOptions]_vars

\* a call with score 0.0 on a collector that saves scores but not
\* predictions, in a target folder that has no predictions folder
C22_Witness ==
    /\ collected # Nothing
    /\ Get(collector).save_scores
    /\ ~Get(collector).save_predictions
    /\ Get(collected).score = Some(0)
    /\ Cardinality(Get(collected).wrote) = 2
    /\ PredictionsFolder \notin disk.folders

----------------------------------------------------------------------------
\* Independence of the scores from ground truth (SpecCallers)

AnnotatedValues == Classes \cup {"", None}
PurposeValues == {None, TRAIN, TEST}

\* the same query item carrying another annotated label and purpose
Relabelled(item, annotated, purpose) ==
    [item EXCEPT !.annotated_label = annotated, !.purpose = purpose]

\* a finished call of caller c came out as it would for the item `twin`
SameOutcomeFor(c, twin) ==
    /\ \A j \in DOMAIN sub_models :
          SubModelCall(sub_models[j].model, <<twin>>)
              = SubModelCall(sub_models[j].model,
                             <<Get(callers[c].data_item)>>)
    /\ InferSubModels(sub_models, <<twin>>).raised # ""
          => Get(callers[c].outcome).raised
                 = InferSubModels(sub_models, <<twin>>).raised
    /\ Get(callers[c].outcome).raised = ""
          => /\ InferSubModels(sub_models, <<twin>>).raised = ""
             /\ Get(callers[c].outcome).features_arranged = FeatureRows(<<twin>>)
             /\ Get(callers[c].outcome).returned
                    = predict_proba[FeatureRows(<<twin>>)[1]][2]

\* C23: a query item that differs from the one scored only in its annotated
\* label or purpose gets the same scores from every sub-model and the same
\* OOD probability.
C23_ScoresIgnoreGroundTruth ==
    \A c \in Callers :
        callers[c].pc = "done" =>
            \A annotated \in AnnotatedValues, purpose \in PurposeValues :
                SameOutcomeFor(c, Relabelled(Get(callers[c].data_item),
                                             annotated, purpose))

\* a call on an item without ground truth has returned an OOD probability
C23_Witness ==
    \E c \in Callers :
        /\ callers[c].pc = "done"
        /\ Get(callers[c].outcome).raised = ""
        /\ Get(callers[c].data_item).annotated_label = ""
        /\ Get(callers[c].data_item).purpose = None
        /\ Get(callers[c].outcome).returned
               = predict_proba[Get(callers[c].outcome).features_arranged[1]][2]

----------------------------------------------------------------------------
\* Separation of the TRAIN and TEST items (Spec)

\* the media names of the items of `data` marked with purpose p
NamesWithPurpose(data, p) ==
    {data[i].media_name : i \in PurposeIndices(data, p)}

\* the names in `used` are those of exactly the items of `data` marked p
UsesExactly(used, data, p) ==
    /\ Range(used) = NamesWithPurpose(data, p)
    /\ Len(used) = Cardinality(PurposeIndices(data, p))

\* lists `train` and `test` of names are disjoint and cover `data`
Partition(train, test, data) ==
    /\ Range(train) \cap Range(test) = {}
    /\ Range(train) \cup Range(test) = Range(MediaNames(data))
    /\ Len(train) + Len(test) = Len(data)

\* C24: no TEST item reaches a sub-model's train or the classifier's fit,
\* the evaluation uses TEST items only, and the TRAIN and TEST lists used
\* are disjoint and together hold every ID item and every OOD item.
C24_TrainAndTestSeparate ==
    /\ \A i \in DOMAIN trainLog :
          /\ Range(trainLog[i].items)
                 \cap NamesWithPurpose(id_distribution_data, TEST) = {}
          /\ Range(trainLog[i].items)
                 \cap NamesWithPurpose(ood_distribution_data, TEST) = {}
    /\ fitLog # Nothing =>
          /\ UsesExactly(Get(fitLog).id_items, id_distribution_data, TRAIN)
          /\ UsesExactly(Get(fitLog).ood_items, ood_distribution_data, TRAIN)
          /\ \A i \in DOMAIN id_distribution_data :
                 id_distribution_data[i].purpose \in {TRAIN, TEST}
          /\ \A i \in DOMAIN ood_distribution_data :
                 ood_distribution_data[i].purpose \in {TRAIN, TEST}
    /\ evalLog # Nothing =>
          /\ UsesExactly(Get(evalLog).id_items, id_distribution_data, TEST)
          /\ UsesExactly(Get(evalLog).ood_items, ood_distribution_data, TEST)
          /\ Partition(Get(fitLog).id_items, Get(evalLog).id_items,
                       id_distribution_data)
          /\ Partition(Get(fitLog).ood_items, Get(evalLog).ood_items,
                       ood_distribution_data)

\* sub-models were trained, the classifier fitted and the model evaluated
\* while both collections held TRAIN items and TEST items
C24_Witness ==
    /\ Len(trainLog) = 4
    /\ fitLog # Nothing
    /\ evalLog # Nothing
    /\ Get(fitLog).id_items # <<>>
    /\ Get(fitLog).ood_items # <<>>
    /\ Get(evalLog).id_items # <<>>
    /\ Get(evalLog).ood_items # <<>>

====
